---- MODULE Spec2Model ----
(***************************************************************************)
(* Model of site_crawler.py: the breadth-first crawl loop of crawl(), the  *)
(* helpers it calls (normalise, same_domain, status_label, get_links) and  *)
(* the retrying HTTP session it configures.                                *)
(*                                                                         *)
(* A URL is a record [scheme, netloc, path, fragment]; the path is a       *)
(* number (0 is the empty path).  An href is the same record read from the *)
(* text of an <a href=...> attribute: scheme "" and netloc "" make it a    *)
(* relative reference.  Redirects are not modelled: every status the       *)
(* server answers is final for its attempt.  log holds the status of each *)
(* attempt of the session.get call in progress, 0 for an attempt that got  *)
(* no HTTP response.                                                       *)
(***************************************************************************)
EXTENDS Integers, Sequences, FiniteSets

\* ---- bounds of the model ------------------------------------------------
MaxPath == 2
MaxLinks == 2
MaxBudget == 3
MaxCode == 999
MaxText == 4

\* ---- program constants --------------------------------------------------
RetryTotal == 3
status_forcelist == {429, 500, 502, 503, 504}

SPECIFIC_LABELS ==
  [c \in {400, 401, 403, 404, 405, 410, 429, 500, 502, 503} |->
     CASE c = 400 -> "400 Bad Request"
       [] c = 401 -> "401 Unauthorized"
       [] c = 403 -> "403 Forbidden (bot-blocked?)"
       [] c = 404 -> "404 Not Found"
       [] c = 405 -> "405 Method Not Allowed"
       [] c = 410 -> "410 Gone"
       [] c = 429 -> "429 Rate Limited"
       [] c = 500 -> "500 Server Error"
       [] c = 502 -> "502 Bad Gateway"
       [] c = 503 -> "503 Service Unavailable"]

STATUS_LABELS ==
  [g \in 2..5 |->
     CASE g = 2 -> "OK"
       [] g = 3 -> "Redirect"
       [] g = 4 -> "Client Error"
       [] g = 5 -> "Server Error"]

TimeoutErrorLabel == "Timeout/Error"

\* ---- the world the crawler talks to -------------------------------------
SeedNetloc == "a.test"
OtherNetloc == "b.test"
BadNetloc == "[bad"

URL(s, n, p, f) == [scheme |-> s, netloc |-> n, path |-> p, fragment |-> f]

\* the text of the href attributes a page may carry
Hrefs ==
  {URL("", "", p, "") : p \in 2..MaxPath}          \* "/p"
  \cup {URL("", "", 1, "x")}                       \* "/1#x"
  \cup {URL("", "", 0, "x")}                       \* "#x"
  \cup {URL("http", OtherNetloc, 1, "")}           \* "http://b.test/1"
  \cup {URL("mailto", "", 1, "")}                  \* "mailto:..."
  \cup {URL("MAILTO", "", 1, "")}                  \* "MAILTO:..."
  \cup {URL("http", BadNetloc, 0, "")}             \* "http://[bad"

RECURSIVE SeqsUpTo(_, _)
SeqsUpTo(S, n) ==
  IF n = 0 THEN {<<>>}
  ELSE LET shorter == SeqsUpTo(S, n - 1)
       IN shorter \cup {Append(s, x) : s \in {t \in shorter : Len(t) = n - 1}, x \in S}

\* what a response carries: its Content-Type and the hrefs in its body
Responses ==
  {<<"text/html", b>> : b \in SeqsUpTo(Hrefs, MaxLinks)}
  \cup {<<"image/png", b>> : b \in SeqsUpTo(Hrefs, 1)}
ServerStatuses == {200, 503}
\* what the requests library raises once the transport has failed for good
TransportExceptions == {"Timeout", "ConnectionError"}

\* ---- helpers ------------------------------------------------------------
\* urlparse lower-cases the scheme it finds
lower(scheme) == IF scheme = "MAILTO" THEN "mailto" ELSE scheme

normalise(url) == [url EXCEPT !.scheme = lower(url.scheme), !.fragment = ""]

same_domain(url, base) == url.netloc = base.netloc

\* (faulty variant: the exact-match table is not consulted)
status_label_coarse(code) ==
  IF (code \div 100) \in DOMAIN STATUS_LABELS THEN STATUS_LABELS[code \div 100]
  ELSE "Unknown"

status_label(code) ==
  IF code \in DOMAIN SPECIFIC_LABELS THEN SPECIFIC_LABELS[code]
  ELSE IF (code \div 100) \in DOMAIN STATUS_LABELS THEN STATUS_LABELS[code \div 100]
  ELSE "Unknown"

\* urlparse raises ValueError on an unbalanced bracket in the netloc
urlparse_raises(href) == href.netloc = BadNetloc

urljoin(base, href) ==
  IF href.scheme # "" /\ href.scheme # base.scheme THEN href
  ELSE IF href.netloc # "" THEN URL(base.scheme, href.netloc, href.path, href.fragment)
  ELSE IF href.path = 0 THEN [base EXCEPT !.fragment = href.fragment]
  ELSE URL(base.scheme, base.netloc, href.path, href.fragment)

skipped(href) == href.scheme \in {"mailto", "tel", "javascript"}

Kept(html) == SelectSeq(html, LAMBDA h : ~skipped(h))

get_links_raises(html) == \E i \in 1..Len(Kept(html)) : urlparse_raises(Kept(html)[i])

get_links(html, page_url) ==
  [i \in 1..Len(Kept(html)) |-> normalise(urljoin(page_url, Kept(html)[i]))]

\* the body the loop keeps: resp.text when "html" is in the Content-Type, else ""
\* (faulty variant: the Content-Type is not looked at)
html_any(ctype, body) == body
html_of(ctype, body) == IF ctype \in {"text/html", "application/xhtml+xml"} THEN body ELSE <<>>

\* (faulty variant: no label of its own for code 0)
label_always_status(code) == status_label(code)
label_of(code) == IF code # 0 THEN status_label(code) ELSE TimeoutErrorLabel

\* ---- state --------------------------------------------------------------
VARIABLES start_url, max_pages, include_external,   \* arguments of crawl()
          queue, visited, results,                  \* the frontier and the report
          pc,                                       \* position in crawl()
          url, code, html,                          \* locals of the iteration
          retries, log,                             \* the session.get call in progress
          exc, ctype, body,                         \* what that call raised or returned
          source, enqueued,                         \* history: who enqueued what, in order
          found,                                    \* history: the links get_links returned
          sleeps,                                   \* history: the time.sleep calls made
          input, output                             \* a helper called on its own: input, outputs

vars == <<start_url, max_pages, include_external, queue, visited, results,
          pc, url, code, html, retries, log, exc, ctype, body, source, enqueued,
          found, sleeps, input, output>>

config == <<start_url, max_pages, include_external>>
alone == <<input, output>>
frontier == <<queue, visited, source, enqueued, found>>
locals == <<code, html, exc, ctype, body>>

NoUrl == URL("", "", 0, "")

Init ==
  /\ \E f \in {"", "x"} : start_url = normalise(URL("http", SeedNetloc, 1, f))
  /\ max_pages \in 1..MaxBudget
  /\ include_external \in BOOLEAN
  /\ queue = <<start_url>>
  /\ visited = {start_url}
  /\ results = <<>>
  /\ pc = "loop"
  /\ url = NoUrl
  /\ code = 0
  /\ html = <<>>
  /\ retries = RetryTotal
  /\ log = <<>>
  /\ exc = ""
  /\ ctype = ""
  /\ body = <<>>
  /\ source = {}
  /\ enqueued = <<start_url>>
  /\ found = {}
  /\ sleeps = 0
  /\ input = 0
  /\ output = <<>>

\* ---- crawl(): the loop ----------------------------------------------------
\* (faulty variant: <= lets one page too many through)
loop_cond_le(q, res, k) == q # <<>> /\ Len(res) <= k
loop_cond(q, res, k) == q # <<>> /\ Len(res) < k

\* (faulty variant: pop() takes the newest URL, not the oldest)
pop(q) == [item |-> q[Len(q)], rest |-> SubSeq(q, 1, Len(q) - 1)]
popleft(q) == [item |-> Head(q), rest |-> Tail(q)]

\* while queue and len(results) < max_pages: url = queue.popleft()
Dequeue ==
  /\ pc = "loop"
  /\ loop_cond(queue, results, max_pages)
  /\ url' = popleft(queue).item
  /\ queue' = popleft(queue).rest
  /\ retries' = RetryTotal
  /\ log' = <<>>
  /\ pc' = "request"
  /\ UNCHANGED <<config, alone, sleeps, visited, results, locals, source, enqueued, found>>

\* the loop condition is false: print the summary line and return results
Finish ==
  /\ pc = "loop"
  /\ ~loop_cond(queue, results, max_pages)
  /\ pc' = "done"
  /\ UNCHANGED <<config, alone, sleeps, frontier, results, url, locals, retries, log>>

\* ---- session.get(url) under the mounted Retry policy ----------------------
\* Retry.increment: one retry is spent; the budget is exhausted below zero
\* (faulty variant: the budget ends two retries early)
is_exhausted_early(total) == total - 1 < 2
is_exhausted(total) == total - 1 < 0

\* the session has adapters for "http://" and "https://" only (line 115 and
\* the defaults); get raises InvalidSchema for any other URL
has_adapter(u) == u.scheme \in {"http", "https"}

\* an attempt is answered with a status outside status_forcelist: get returns
Respond ==
  /\ pc = "request"
  /\ has_adapter(url)
  /\ \E s \in ServerStatuses \ status_forcelist : log' = Append(log, s)
  /\ pc' = "response"
  /\ UNCHANGED <<config, alone, sleeps, frontier, results, url, locals, retries>>

\* an attempt is answered with a status of status_forcelist: the adapter
\* retries while the Retry budget lasts, then get raises RetryError
RetryStatus ==
  /\ pc = "request"
  /\ has_adapter(url)
  /\ \E s \in ServerStatuses \cap status_forcelist : log' = Append(log, s)
  /\ IF is_exhausted(retries)
     THEN /\ exc' = "RequestException"
          /\ pc' = "except"
          /\ UNCHANGED retries
     ELSE /\ retries' = retries - 1
          /\ UNCHANGED <<pc, exc>>
  /\ UNCHANGED <<config, alone, sleeps, frontier, results, url, code, html, ctype, body>>

\* an attempt fails in the transport (connect or read timeout, connection
\* error); 0 in the log: retried too, then get raises Timeout/ConnectionError
RetryFault ==
  /\ pc = "request"
  /\ has_adapter(url)
  /\ log' = Append(log, 0)
  /\ IF is_exhausted(retries)
     THEN /\ exc' \in TransportExceptions
          /\ pc' = "except"
          /\ UNCHANGED retries
     ELSE /\ retries' = retries - 1
          /\ UNCHANGED <<pc, exc>>
  /\ UNCHANGED <<config, alone, sleeps, frontier, results, url, code, html, ctype, body>>

\* any other requests exception (invalid URL or schema, ...): not retried
RequestError ==
  /\ pc = "request"
  /\ log' = Append(log, 0)
  /\ exc' = "RequestException"
  /\ pc' = "except"
  /\ UNCHANGED <<config, alone, sleeps, frontier, results, url, code, html, retries, ctype, body>>

\* ---- crawl(): the outcome of the request ----------------------------------
record_of(u, c) == [url |-> u, status_code |-> c, label |-> label_of(c)]

\* code = resp.status_code: the status of the last attempt
ReadStatus ==
  /\ pc = "response"
  /\ code' = log[Len(log)]
  /\ log' = <<>>
  /\ pc' = "read"
  /\ UNCHANGED <<config, alone, sleeps, frontier, results, url, html, retries, exc, ctype, body>>

\* html = resp.text if "html" in Content-Type else ""; label = ...;
\* results.append(...)
Record ==
  /\ pc = "read"
  /\ \E r \in Responses :
       /\ ctype' = r[1]
       /\ body' = r[2]
       /\ html' = html_of(r[1], r[2])
  /\ results' = Append(results, record_of(url, code))
  /\ pc' = "discover"
  /\ UNCHANGED <<config, alone, sleeps, frontier, url, code, retries, log, exc>>

\* (faulty variant: a failed fetch leaves no record)
RecordFailure_silent ==
  /\ pc = "except"
  /\ code' = 0
  /\ html' = <<>>
  /\ log' = <<>>
  /\ pc' = "discover"
  /\ UNCHANGED <<config, alone, sleeps, frontier, results, url, retries, exc, ctype, body>>

\* except Timeout / ConnectionError / RequestException: code, html = 0, "";
\* label = ...; results.append(...)
RecordFailure ==
  /\ pc = "except"
  /\ code' = 0
  /\ html' = <<>>
  /\ results' = Append(results, record_of(url, 0))
  /\ log' = <<>>
  /\ pc' = "discover"
  /\ UNCHANGED <<config, alone, sleeps, frontier, url, retries, exc, ctype, body>>

\* ---- crawl(): link discovery ----------------------------------------------
\* (faulty variant: pages of any domain are expanded)
expandable_any(h, u, start) == h # <<>>
expandable(h, u, start) == h # <<>> /\ same_domain(u, start)

\* (faulty variants: without the visited test, without the scope test)
admit_unseen(link, vis, ext, start) == ~(~ext /\ ~same_domain(link, start))
admit_all(link, vis, ext, start) == link \notin vis
admit(link, vis, ext, start) ==
  /\ link \notin vis
  /\ ~(~ext /\ ~same_domain(link, start))

\* (faulty variant: a link is marked visited before its scope is looked at)
RECURSIVE offer_all_marking(_, _, _, _, _)
offer_all_marking(st, links, page, ext, start) ==
  IF links = <<>> THEN st
  ELSE LET link == Head(links)
       IN IF admit(link, st.visited, ext, start)
          THEN offer_all_marking([visited |-> st.visited \cup {link},
                                  queue |-> Append(st.queue, link),
                                  source |-> st.source \cup {<<page, link>>},
                                  enqueued |-> Append(st.enqueued, link)],
                                 Tail(links), page, ext, start)
          ELSE offer_all_marking([st EXCEPT !.visited = st.visited \cup {link}],
                                 Tail(links), page, ext, start)

\* for link in links: ... visited.add(link); queue.append(link)
RECURSIVE offer_all(_, _, _, _, _)
offer_all(st, links, page, ext, start) ==
  IF links = <<>> THEN st
  ELSE LET link == Head(links)
       IN IF admit(link, st.visited, ext, start)
          THEN offer_all([visited |-> st.visited \cup {link},
                          queue |-> Append(st.queue, link),
                          source |-> st.source \cup {<<page, link>>},
                          enqueued |-> Append(st.enqueued, link)],
                         Tail(links), page, ext, start)
          ELSE offer_all(st, Tail(links), page, ext, start)

Frontier == [visited |-> visited, queue |-> queue, source |-> source, enqueued |-> enqueued]

\* what the request returned is dead once the links are discovered
Forget ==
  /\ exc' = ""
  /\ ctype' = ""
  /\ body' = <<>>
  /\ html' = <<>>

\* if html and same_domain(url, start_url): offer every link of the page
Discover ==
  /\ pc = "discover"
  /\ expandable(html, url, start_url)
  /\ ~get_links_raises(html)
  /\ LET st == offer_all(Frontier, get_links(html, url), url, include_external, start_url)
     IN /\ visited' = st.visited
        /\ queue' = st.queue
        /\ source' = st.source
        /\ enqueued' = st.enqueued
  /\ found' = found \cup {get_links(html, url)[i] : i \in 1..Len(get_links(html, url))}
  /\ pc' = "sleep"
  /\ Forget
  /\ UNCHANGED <<config, alone, sleeps, results, url, code, retries, log>>

\* get_links raises ValueError out of crawl(): nothing catches it
DiscoverRaises ==
  /\ pc = "discover"
  /\ expandable(html, url, start_url)
  /\ get_links_raises(html)
  /\ pc' = "aborted"
  /\ UNCHANGED <<config, alone, sleeps, frontier, results, url, locals, retries, log>>

\* no HTML body, or a page outside the seed's domain: nothing to discover
\* (faulty variant: with nothing to discover the loop goes on without the delay)
SkipDiscover_continue ==
  /\ pc = "discover"
  /\ ~expandable(html, url, start_url)
  /\ pc' = "loop"
  /\ Forget
  /\ UNCHANGED <<config, alone, sleeps, frontier, results, url, code, retries, log>>

SkipDiscover ==
  /\ pc = "discover"
  /\ ~expandable(html, url, start_url)
  /\ pc' = "sleep"
  /\ Forget
  /\ UNCHANGED <<config, alone, sleeps, frontier, results, url, code, retries, log>>

\* jitter = delay + (time.time() % 0.5); time.sleep(jitter)
Sleep ==
  /\ pc = "sleep"
  /\ pc' = "loop"
  /\ sleeps' = sleeps + 1
  /\ UNCHANGED <<config, alone, frontier, results, url, locals, retries, log>>

Next ==
  \/ Dequeue
  \/ Finish
  \/ Respond
  \/ RetryStatus
  \/ RetryFault
  \/ RequestError
  \/ ReadStatus
  \/ Record
  \/ RecordFailure
  \/ Discover
  \/ DiscoverRaises
  \/ SkipDiscover
  \/ Sleep

Spec == Init /\ [][Next]_vars

\* the interpreter keeps running crawl() until it returns or raises
FairSpec == Spec /\ WF_vars(Next)

TypeOK == pc \in {"loop", "request", "response", "read", "except", "discover", "sleep",
                  "done", "aborted"}

\* ---- the helpers, called on their own -------------------------------------
\* crawl() is not running: its variables rest
Idle ==
  /\ start_url = NoUrl
  /\ max_pages = 1
  /\ include_external = FALSE
  /\ queue = <<>>
  /\ visited = {}
  /\ results = <<>>
  /\ pc = "idle"
  /\ url = NoUrl
  /\ code = 0
  /\ html = <<>>
  /\ retries = RetryTotal
  /\ log = <<>>
  /\ exc = ""
  /\ ctype = ""
  /\ body = <<>>
  /\ source = {}
  /\ enqueued = <<>>
  /\ found = {}
  /\ sleeps = 0

crawl_vars == <<config, frontier, results, pc, url, locals, retries, log, sleeps>>

\* label = status_label(code) if code else "Timeout/Error", for any code an
\* HTTP status line can carry (three digits) and 0, the code of a failed fetch
InitClassify ==
  /\ Idle
  /\ input \in {0} \cup 100..MaxCode
  /\ output = <<>>

Classify ==
  /\ pc = "idle"
  /\ output = <<>>
  /\ output' = <<label_of(input)>>
  /\ UNCHANGED <<crawl_vars, input>>

NextClassify == Classify

ClassifySpec == InitClassify /\ [][NextClassify]_vars

\* normalise(url) on the text of a URL. A text is a sequence of symbols: the
\* delimiters urlparse looks for and two runs of letters, "http" (a scheme of
\* uses_netloc when it stands alone) and "x" (any other run).
Alphabet == {"http", "x", ":", "/", "?", "#"}
Letters == {"http", "x"}
Texts == SeqsUpTo(Alphabet, MaxText)

\* s.find: the index of the first symbol of s that is in D, 0 if there is none
find(s, D) ==
  IF \E k \in DOMAIN s : s[k] \in D
  THEN CHOOSE k \in DOMAIN s : s[k] \in D /\ \A j \in 1..(k - 1) : s[j] \notin D
  ELSE 0
before(s, k) == IF k = 0 THEN s ELSE SubSeq(s, 1, k - 1)
after(s, k) == IF k = 0 THEN <<>> ELSE SubSeq(s, k + 1, Len(s))

\* urllib.parse.urlsplit: scheme up to the first ":" when only scheme
\* characters precede it, netloc after "//" up to the first of "/?#", then the
\* fragment after the first "#" and the query after the first "?"
urlsplit(u) ==
  LET colon == find(u, {":"})
      has_scheme == colon > 1 /\ \A k \in 1..(colon - 1) : u[k] \in Letters
      scheme == IF has_scheme THEN before(u, colon) ELSE <<>>
      rest == IF has_scheme THEN after(u, colon) ELSE u
      has_netloc == Len(rest) >= 2 /\ rest[1] = "/" /\ rest[2] = "/"
      tail == SubSeq(rest, 3, Len(rest))
      delim == find(tail, {"/", "?", "#"})
      netloc == IF has_netloc THEN before(tail, delim) ELSE <<>>
      rest1 == IF ~has_netloc THEN rest
               ELSE IF delim = 0 THEN <<>> ELSE SubSeq(tail, delim, Len(tail))
      hash == find(rest1, {"#"})
      rest2 == before(rest1, hash)
      mark == find(rest2, {"?"})
  IN [scheme |-> scheme, netloc |-> netloc, path |-> before(rest2, mark),
      query |-> after(rest2, mark), fragment |-> after(rest1, hash)]

uses_netloc(scheme) == scheme = <<"http">>

\* urllib.parse.urlunsplit, as ParseResult.geturl calls it
urlunsplit(p) ==
  LET slashes == Len(p.path) >= 2 /\ p.path[1] = "/" /\ p.path[2] = "/"
      authority == p.netloc # <<>> \/ (uses_netloc(p.scheme) /\ ~slashes)
      rooted == IF p.path # <<>> /\ p.path[1] # "/" THEN <<"/">> \o p.path ELSE p.path
      url0 == IF authority THEN <<"/", "/">> \o p.netloc \o rooted ELSE p.path
      url1 == IF p.scheme # <<>> THEN p.scheme \o <<":">> \o url0 ELSE url0
      url2 == IF p.query # <<>> THEN url1 \o <<"?">> \o p.query ELSE url1
  IN IF p.fragment # <<>> THEN url2 \o <<"#">> \o p.fragment ELSE url2

\* urlparse(url)._replace(fragment="").geturl()
normalise_text(u) == urlunsplit([urlsplit(u) EXCEPT !.fragment = <<>>])

\* two texts that differ in nothing but what follows their first "#"
InitNormalise ==
  /\ Idle
  /\ \E u \in Texts :
       \E f \in {<<>>, <<"#">>} \cup {<<"#", a>> : a \in Alphabet} :
         input = <<u, before(u, find(u, {"#"})) \o f>>
  /\ output = <<>>

\* normalise is applied to both texts, then to what it returned
Normalise ==
  /\ pc = "idle"
  /\ Len(output) < 2
  /\ LET last == IF output = <<>> THEN input ELSE output[Len(output)]
     IN output' = Append(output, <<normalise_text(last[1]), normalise_text(last[2])>>)
  /\ UNCHANGED <<crawl_vars, input>>

NextNormalise == Normalise

NormaliseSpec == InitNormalise /\ [][NextNormalise]_vars

\* ---- properties -----------------------------------------------------------
Range(s) == {s[i] : i \in DOMAIN s}
NoDup(s) == \A i, j \in DOMAIN s : i # j => s[i] # s[j]
Min(a, b) == IF a <= b THEN a ELSE b
ResultUrls == [i \in DOMAIN results |-> results[i].url]
Running == pc \notin {"done", "aborted"}
\* the dequeued URL is being requested and has no record yet
InFlight == pc \in {"request", "response", "read", "except"}

\* C1: no URL occurs twice in the queue, the URLs of the records are pairwise
\* distinct, and a URL that was dequeued (in flight or recorded) is never
\* queued again: each distinct URL is fetched at most once.
C1_FetchedAtMostOnce ==
  /\ NoDup(queue)
  /\ NoDup(ResultUrls)
  /\ Range(queue) \cap Range(ResultUrls) = {}
  /\ InFlight => url \notin (Range(queue) \cup Range(ResultUrls))

\* a page other than the seed was discovered and some page linked back to the seed
C1_Witness ==
  /\ pc = "sleep"
  /\ start_url \in found
  /\ Len(results) >= 2

\* C2 as stated: on return the number of records is min(maxPages, N), N the
\* number of distinct URLs of the seed's authority reachable through the links
\* of fetched pages.
InScopeReachable == {u \in {start_url} \cup found : same_domain(u, start_url)}

C2_LengthIsMinOfBudgetAndInScope ==
  pc = "done" => Len(results) = Min(max_pages, Cardinality(InScopeReachable))

\* C2 amended: N also counts the out-of-scope URLs linked from the fetched
\* pages of the seed's authority when include_external is set.
Eligible ==
  {u \in {start_url} \cup found : include_external \/ same_domain(u, start_url)}

C2_LengthIsMinOfBudgetAndEligible ==
  pc = "done" => Len(results) = Min(max_pages, Cardinality(Eligible))

\* the budget cut the crawl short and a URL outside the seed's domain was recorded
C2_Witness ==
  /\ pc = "done"
  /\ include_external
  /\ Cardinality(Eligible) > max_pages
  /\ Len(results) = max_pages
  /\ \E i \in DOMAIN results : ~same_domain(results[i].url, start_url)

\* C3: the loop leaves RUNNING only into DONE, and only when the queue is
\* empty or len(results) = maxPages.
C3_LeavesRunningOnlyWhenDone ==
  [][Running /\ ~Running' =>
       /\ pc' = "done"
       /\ (queue = <<>> \/ Len(results) = max_pages)]_vars

\* C4: the records follow the order of enqueueing (the seed first, an earlier
\* enqueued URL before a later one), so their BFS depth never decreases.
Parent(u) == CHOOSE p \in visited : <<p, u>> \in source

RECURSIVE Depth(_)
Depth(u) == IF u = start_url THEN 0 ELSE 1 + Depth(Parent(u))

C4_BfsOrder ==
  /\ Len(results) <= Len(enqueued)
  /\ \A i \in DOMAIN results : results[i].url = enqueued[i]
  /\ results # <<>> => results[1].url = start_url
  /\ \A i, j \in DOMAIN results : i < j => Depth(results[i].url) <= Depth(results[j].url)

\* the seed, then two pages the seed linked to, were recorded
C4_Witness ==
  /\ Len(results) = 3
  /\ <<start_url, results[2].url>> \in source
  /\ <<start_url, results[3].url>> \in source

\* C5: with include_external = false every queued, in-flight or recorded URL
\* has the seed's netloc.
C5_ScopeRespected ==
  ~include_external =>
    /\ \A u \in Range(queue) \cup Range(ResultUrls) : same_domain(u, start_url)
    /\ InFlight => same_domain(url, start_url)

\* a link out of the seed's domain was found and the crawl went on without it
C5_Witness ==
  /\ ~include_external
  /\ pc = "done"
  /\ \E u \in found : ~same_domain(u, start_url)
  /\ Len(results) >= 2

\* C6: with include_external = true every enqueued URL is the seed or was
\* discovered on a page of the seed's netloc: a page outside it is recorded
\* but never expanded.
C6_ExternalNeverExpanded ==
  include_external =>
    /\ \A e \in source : same_domain(e[1], start_url)
    /\ \A u \in visited : u = start_url \/ \E p \in visited : <<p, u>> \in source

\* a page outside the seed's domain was fetched as HTML with links and recorded
C6_Witness ==
  /\ include_external
  /\ pc = "discover"
  /\ ~same_domain(url, start_url)
  /\ html # <<>>
  /\ ~get_links_raises(html)
  /\ results[Len(results)].url = url

\* C7: a request that ends in an exception appends exactly one record for the
\* URL, with status 0 and the Timeout/Error label; no link is discovered from
\* it and the loop goes on to the next queued URL while the budget lasts.
C7_TransportFailureRecorded ==
  [][/\ pc = "except" =>
          /\ url \notin Range(ResultUrls)
          /\ results' = Append(results,
                 [url |-> url, status_code |-> 0, label |-> TimeoutErrorLabel])
          /\ html' = <<>>
          /\ pc' = "discover"
     /\ pc = "discover" /\ exc # "" =>
          /\ pc' = "sleep"
          /\ queue' = queue /\ visited' = visited /\ results' = results
     /\ pc = "sleep" => pc' = "loop" /\ results' = results
     /\ pc = "loop" /\ queue # <<>> /\ Len(results) < max_pages =>
          /\ pc' = "request"
          /\ url' = Head(queue)]_vars

\* after a failed request was recorded, the next queued URL is being requested
C7_Witness ==
  /\ pc = "request"
  /\ results # <<>>
  /\ results[Len(results)].status_code = 0
  /\ results[Len(results)].label = TimeoutErrorLabel

\* C8: when the first two attempts are answered 503 a third attempt is made,
\* and when that one is answered 200 the request is over after exactly three
\* attempts and the URL gets its single record, with status 200.
C8_RetryThenSuccess ==
  [][/\ pc' \in {"response", "except"} /\ Len(log') >= 2
          /\ log'[1] = 503 /\ log'[2] = 503 => Len(log') >= 3
     /\ pc = "response" /\ log = <<503, 503, 200>> =>
          /\ code' = 200
          /\ pc' = "read"
     /\ pc = "read" =>
          /\ url \notin Range(ResultUrls)
          /\ results' = Append(results, record_of(url, code))]_vars

\* session.get has returned after the answers 503, 503, 200
C8_Witness ==
  /\ pc = "response"
  /\ log = <<503, 503, 200>>

\* C9: the status the loop records is the status of the last attempt; it is 0
\* only if that attempt obtained no HTTP response (0 in the log).
RequestOver == pc \in {"response", "except"}

C9_StatusOfFinalResponse ==
  [][RequestOver /\ ~RequestOver' => code' = log[Len(log)]]_vars

\* C10: a page whose Content-Type is not HTML has its record, with the status
\* of the response, and leaves the queue and the visited set as they are,
\* whatever hrefs its body holds.
C10_NonHtmlNotExpanded ==
  [][pc = "discover" /\ exc = "" /\ ctype # "text/html" =>
       /\ results[Len(results)] = record_of(url, code)
       /\ code # 0
       /\ queue' = queue
       /\ visited' = visited
       /\ found' = found
       /\ pc' = "sleep"]_vars

\* an image of the seed's domain whose body holds a link to an unvisited page
C10_Witness ==
  /\ pc = "discover"
  /\ ctype = "image/png"
  /\ same_domain(url, start_url)
  /\ body # <<>>
  /\ ~get_links_raises(body)
  /\ \E i \in DOMAIN get_links(body, url) :
       admit(get_links(body, url)[i], visited, include_external, start_url)

\* ---- classification of a status code ----------------------------------------
ExactMatchCodes == {400, 401, 403, 404, 405, 410, 429, 500, 502, 503}
CoarseLabels == {STATUS_LABELS[g] : g \in DOMAIN STATUS_LABELS}
Classified == pc = "idle" /\ output # <<>>

\* C11 as stated: the ten exact-match codes get their specific label, EVERY
\* other non-zero code gets the coarse label of its class (2xx, 3xx, 4xx or
\* 5xx), and code 0 gets the transport-failure label.
C11_EveryOtherCodeCoarse ==
  Classified =>
    IF input = 0 THEN output[1] = TimeoutErrorLabel
    ELSE IF input \in ExactMatchCodes THEN output[1] = SPECIFIC_LABELS[input]
    ELSE /\ output[1] \in CoarseLabels
         /\ (input \div 100) \in 2..5 => output[1] = STATUS_LABELS[input \div 100]

\* C11, amended: the ten exact-match codes get their specific label, every
\* other code from 200 to 599 gets the coarse label of its hundreds class, any
\* other non-zero code (1xx, 6xx and above) gets the label "Unknown", and
\* code 0 gets the transport-failure label.
C11_TwoTierOrUnknown ==
  Classified =>
    output[1] = IF input = 0 THEN TimeoutErrorLabel
                ELSE IF input \in ExactMatchCodes THEN SPECIFIC_LABELS[input]
                ELSE IF input \in 200..599 THEN STATUS_LABELS[input \div 100]
                ELSE "Unknown"

\* 201 has no label of its own and is classified by its class, 2xx
C11_Witness == Classified /\ input = 201 /\ output = <<"OK">>

\* ---- normalisation of a URL ---------------------------------------------------
\* C12: two URLs that differ only in their fragment normalise to the same
\* text, and normalising what normalise returned changes nothing.
C12_IdempotentAndFragmentBlind ==
  pc = "idle" =>
    /\ Len(output) >= 1 => output[1][1] = output[1][2]
    /\ Len(output) = 2 => output[2] = output[1]

\* ---- the frontier -----------------------------------------------------------------
Count(u, s) == Cardinality({i \in DOMAIN s : s[i] = u})
Admissible(u) == include_external \/ same_domain(u, start_url)

\* C13 as stated: however often a URL is offered, it is enqueued exactly once,
\* and visited never loses an element.
C13_OfferedEnqueuedOnce ==
  [][/\ visited \subseteq visited'
     /\ \A u \in found' : Count(u, enqueued') = 1]_vars

\* C13, amended: however often a URL is offered, it is enqueued exactly once
\* when it is of the seed's domain or include_external is set and never
\* otherwise (the seed counts as enqueued by the seeding); visited never loses
\* an element.
C13_AdmissibleEnqueuedOnce ==
  [][/\ visited \subseteq visited'
     /\ \A u \in found' : Count(u, enqueued') = IF Admissible(u) THEN 1 ELSE 0]_vars

\* the page about to be expanded offers one and the same new URL twice
C13_Witness ==
  /\ pc = "discover"
  /\ expandable(html, url, start_url)
  /\ ~get_links_raises(html)
  /\ Len(get_links(html, url)) = 2
  /\ get_links(html, url)[1] = get_links(html, url)[2]
  /\ admit(get_links(html, url)[1], visited, include_external, start_url)

\* ---- the report ---------------------------------------------------------------------
Dequeued == Len(enqueued) - Len(queue)
Appends(old, new, u) ==
  /\ Len(new) = Len(old) + 1
  /\ SubSeq(new, 1, Len(old)) = old
  /\ new[Len(new)].url = u

\* C14: a step either leaves results as it is or appends one record, the
\* record of the dequeued URL, while that URL's request is being settled; and
\* every dequeued URL has exactly one record once its request is settled,
\* whatever the outcome: no record is removed, moved or changed.
C14_ResultsAppendOnly ==
  [][/\ results' = results \/ (InFlight /\ Appends(results, results', url))
     /\ Len(results') = Dequeued' - (IF InFlight' THEN 1 ELSE 0)]_vars

\* crawl() has returned a report with a failed fetch and a successful one
C14_Witness ==
  /\ pc = "done"
  /\ \E i, j \in DOMAIN results : results[i].status_code = 0 /\ results[j].status_code = 200

\* ---- link extraction ------------------------------------------------------------------
Expanding == pc = "discover"

\* C15: whatever link targets a fetched page holds, malformed ones included,
\* its expansion ends with the loop going on to the delay, the report kept:
\* get_links does not raise and crawl() is not aborted.
C15_MalformedLinkNeverAborts ==
  [][Expanding => pc' = "sleep" /\ results' = results]_vars

\* ---- the offers of a page ---------------------------------------------------------------
RECURSIVE Distinct(_)
Distinct(s) ==
  IF s = <<>> THEN <<>>
  ELSE LET d == Distinct(SubSeq(s, 1, Len(s) - 1))
       IN IF s[Len(s)] \in Range(d) THEN d ELSE Append(d, s[Len(s)])
Accepted(links) == Distinct(SelectSeq(links, LAMBDA l : l \notin visited /\ Admissible(l)))
Offering == Expanding /\ expandable(html, url, start_url)

\* C16: when a page's links are offered, a link is enqueued (and marked
\* visited) if and only if it was not visited and is in scope or
\* include_external is set; the accepted links join the queue once each, in the
\* page's order, and a rejected link changes neither the queue nor visited, so
\* a rejected out-of-scope URL is not marked visited.
C16_OfferEnqueuesIffAdmitted ==
  [][Offering /\ pc' = "sleep" =>
       /\ queue' = queue \o Accepted(get_links(html, url))
       /\ visited' = visited \cup Range(Accepted(get_links(html, url)))
       /\ \A l \in Range(get_links(html, url)) :
            /\ l \in Range(queue') \ Range(queue) <=> (l \notin visited /\ Admissible(l))
            /\ ~Admissible(l) => l \notin visited']_vars

\* the page about to be expanded offers a link that will be rejected for its
\* domain and a new link that will be accepted
C16_Witness ==
  /\ Offering
  /\ ~get_links_raises(html)
  /\ ~include_external
  /\ \E i, j \in DOMAIN get_links(html, url) :
       /\ ~same_domain(get_links(html, url)[i], start_url)
       /\ admit(get_links(html, url)[j], visited, include_external, start_url)

\* ---- pacing ---------------------------------------------------------------------------------
\* C18: fetches are strictly sequential with one delay per iteration. A fetch
\* starts only at the top of the loop, when every earlier fetch has its record
\* and has been followed by exactly one sleep; a sleep happens only after the
\* record of the fetched URL was appended and its links were offered, and leads
\* back to the top of the loop; at most one dequeued URL is without a record.
C18_OneSleepBetweenFetches ==
  [][/\ (~InFlight /\ InFlight') => (pc = "loop" /\ sleeps = Len(results))
     /\ sleeps' # sleeps =>
          /\ sleeps' = sleeps + 1
          /\ Len(results) = sleeps'
          /\ results[Len(results)].url = url
          /\ html = <<>>
          /\ pc' = "loop"
     /\ Dequeued' - Len(results') = (IF InFlight' THEN 1 ELSE 0)]_vars

\* the third fetch is in flight: two fetches were recorded, two sleeps were made
C18_Witness == pc = "request" /\ sleeps = 2 /\ Len(results) = 2

\* ---- link targets that are no pages --------------------------------------------------------
NoPageSchemes == {"mailto", "tel", "javascript"}

\* C19: no URL whose scheme is mailto, tel or javascript is ever offered to the
\* frontier, marked visited, queued or recorded, whatever include_external is.
C19_NoMailtoTelJavascript ==
  \A u \in found \cup visited \cup Range(queue) \cup Range(ResultUrls) :
    u.scheme \notin NoPageSchemes

\* ---- visited, queue and report ----------------------------------------------------------------
\* C20: at the top of the loop, and when crawl() returns, visited is exactly
\* the disjoint union of the queued URLs and the recorded URLs: every visited
\* URL is in one of the two, none is in both, and none occurs twice.
C20_VisitedIsQueuePlusResults ==
  pc \in {"loop", "done"} =>
    /\ visited = Range(queue) \cup Range(ResultUrls)
    /\ Range(queue) \cap Range(ResultUrls) = {}
    /\ Cardinality(visited) = Len(queue) + Len(results)

\* at the top of the loop with pages recorded and pages still queued
C20_Witness == pc = "loop" /\ Len(results) >= 2 /\ Len(queue) >= 2

====
